---- MODULE Spec2Model ----
(***************************************************************************)
(* State-machine model of the swipelearn flashcard API: the SM-2 review    *)
(* scheduling of FlashcardService (api/internal/services/flashcard.go),    *)
(* the flashcard repository it writes through, the due-card selection and  *)
(* the HTTP handlers that reach them.                                      *)
(*                                                                         *)
(* Numeric conventions.  Ease factors and difficulties are float64 in the  *)
(* source; every value the code produces from 2.5 is, up to float64        *)
(* rounding error, a multiple of 0.01, so they are kept here as integers   *)
(* in hundredths (2.5 is 250, the floor 1.3 is 130) and math.Round of a    *)
(* product is the round-half-away-from-zero of the exact product.  The     *)
(* exact values and the float64 values give the same ease factor (to       *)
(* 1e-6), interval and count for every sequence of up to four reviews of a *)
(* new card, which covers the depth explored here; from five reviews on a  *)
(* product can fall on a half (25 * 1.94 = 48.5), where the float64        *)
(* rounding error of the ease factor decides the rounded interval.         *)
(* Timestamps are integers in clock ticks, a day is TicksPerDay ticks.  A  *)
(* nullable *time.Time is the empty sequence (nil) or a one-element        *)
(* sequence holding the time.  The opaque text fields Front and Back take  *)
(* no part in any decision of the code and are left out of the card        *)
(* record.                                                                 *)
(*                                                                         *)
(* The variable last records the most recent service or handler call: its  *)
(* arguments, the card it was about as stored before the call, the number  *)
(* of repository GetByID and Update calls it made, the clock readings it   *)
(* took and the error it returned.  streak counts, per card, the accepted   *)
(* reviews with quality >= 3 since the last accepted review with quality   *)
(* < 3.  proc holds the local state of request goroutines that run         *)
(* ReviewFlashcard step by step.                                           *)
(***************************************************************************)
EXTENDS Integers, Sequences, FiniteSets, TLC

\* ---------------------------------------------------------------- bounds
MaxReviews == 3      \* accepted reviews per behaviour of Spec
MaxDueReviews == 2   \* accepted reviews per behaviour of SpecDue
MaxAuthReviews == 1  \* accepted reviews per behaviour of SpecAuth
MaxUpdateReviews == 1  \* accepted reviews per behaviour of SpecUpdate
MaxClock == 3        \* last clock tick
TicksPerDay == 2     \* clock ticks in 24 hours
MaxDelay == 1        \* ticks the clock may advance between two time.Now() reads of one call
MaxRefreshTokens == 3  \* refresh_tokens rows per behaviour of SpecRefresh
MaxLogins == 11      \* refresh_tokens rows per behaviour of SpecLogin
MaxScheduleReviews == 3  \* accepted reviews per behaviour of SpecSchedule
MaxStudyReviews == 2 \* accepted reviews per behaviour of SpecStudy
MaxRequests == 4     \* original requests per behaviour of SpecClient
MaxRefreshPosts == 3 \* POST /auth/refresh requests per original request in SpecClient

CardIDs == {"c1", "c2"}
Users == {"u1", "u2"}
NilUUID == "nil"
Decks == {"d1"}
Qualities == {-1, 0, 1, 2, 3, 4, 5, 6}

\* ------------------------------------------------------------ data model
NULL == <<>>
Some(t) == <<t>>

NoCard == [absent |-> TRUE]

FlashcardZeroInterval(user, deck) ==
  [UserID |-> user, DeckID |-> deck, Difficulty |-> 250, Interval |-> 0,
   EaseFactor |-> 250, ReviewCount |-> 0, LastReview |-> NULL, NextReview |-> NULL]

Flashcard(user, deck) ==
  [UserID |-> user, DeckID |-> deck, Difficulty |-> 250, Interval |-> 1,
   EaseFactor |-> 250, ReviewCount |-> 0, LastReview |-> NULL, NextReview |-> NULL]

UpdateFlashcardRequest(difficulty, interval, easeFactor, reviewCount, lastReview, nextReview) ==
  [Difficulty |-> difficulty, Interval |-> interval, EaseFactor |-> easeFactor,
   ReviewCount |-> reviewCount, LastReview |-> lastReview, NextReview |-> nextReview]

Procs == {"p1", "p2"}

VARIABLES store, created, clock, reviews, last, streak, proc

\* The refresh_tokens table in creation order, the goroutines that run
\* AuthService.RefreshToken, and the last refresh-token lookup.
VARIABLES tokens, rproc, rlast

cardVars == <<store, created, clock, reviews, last, streak, proc>>

authVars == <<tokens, rproc, rlast>>

\* The web client: the pending requests of the axios instance with its auth
\* store, and the state of the study page.
VARIABLES client, study

uiVars == <<client, study>>

vars ==
  <<store, created, clock, reviews, last, streak, proc, tokens, rproc, rlast, client, study>>

NoCall ==
  [op |-> "none", id |-> "none", user |-> NilUUID, quality |-> 0, err |-> "none",
   pre |-> NoCard, gets |-> 0, updates |-> 0, creates |-> 0, deletes |-> 0,
   now1 |-> 0, now2 |-> 0,
   list |-> <<>>, result |-> <<>>]

\* A request goroutine that has not entered ReviewFlashcard.
IdleProc == [pc |-> "idle", id |-> "none", quality |-> 0, card |-> NoCard, err |-> "none"]

RefreshProcs == {"r1", "r2"}

\* A request goroutine that has not entered AuthService.RefreshToken.  A
\* refresh token string is the number of the row StoreRefreshToken wrote for
\* it; 0 is a string no login issued.
IdleRefresh == [pc |-> "idle", user |-> NilUUID, token |-> 0, err |-> "none", issued |-> 0]

NoLookup == [op |-> "none", user |-> NilUUID, token |-> 0, err |-> "none"]

\* The client before sign-in.  stack holds the requests that wait for a
\* response or for a refresh their 401 started, the original request first.
\* refreshPosts and retries count the POST /auth/refresh requests and the
\* re-sent original requests since the original request was made.
SignedOutClient ==
  [stack |-> <<>>, session |-> FALSE, outcome |-> "idle", signedOut |-> FALSE,
   requests |-> 0, refreshPosts |-> 0, retries |-> 0]

\* The study page before it is opened.
ClosedStudy ==
  [open |-> FALSE, user |-> NilUUID, dueCards |-> <<>>, currentCardIndex |-> 0,
   stale |-> FALSE, initial |-> {}, presented |-> {}]

Init ==
  /\ store = [id \in CardIDs |-> NoCard]
  /\ created = <<>>
  /\ clock = 0
  /\ reviews = 0
  /\ last = NoCall
  /\ streak = [id \in CardIDs |-> 0]
  /\ proc = [p \in Procs |-> IdleProc]
  /\ tokens = <<>>
  /\ rproc = [p \in RefreshProcs |-> IdleRefresh]
  /\ rlast = NoLookup
  /\ client = SignedOutClient
  /\ study = ClosedStudy

\* ------------------------------------------------------------ repository
GetByIDAnyRow(id) ==
  IF store[id] # NoCard \/ \A other \in CardIDs : store[other] = NoCard
  THEN store[id]
  ELSE store[CHOOSE other \in CardIDs : store[other] # NoCard]

GetByID(id) == store[id]

RECURSIVE GetByUserRows(_, _)
GetByUserRows(rows, userID) ==
  IF rows = <<>> THEN <<>>
  ELSE IF store[Head(rows)].UserID = userID
       THEN <<Head(rows)>> \o GetByUserRows(Tail(rows), userID)
       ELSE GetByUserRows(Tail(rows), userID)

GetByUser(userID) == GetByUserRows(created, userID)

RepoUpdateWithoutNextReview(card, updates) ==
  [card EXCEPT
     !.Difficulty = IF updates.Difficulty # NULL THEN updates.Difficulty[1] ELSE @,
     !.Interval = IF updates.Interval # NULL THEN updates.Interval[1] ELSE @,
     !.EaseFactor = IF updates.EaseFactor # NULL THEN updates.EaseFactor[1] ELSE @,
     !.ReviewCount = IF updates.ReviewCount # NULL THEN updates.ReviewCount[1] ELSE @,
     !.LastReview = IF updates.LastReview # NULL THEN updates.LastReview ELSE @]

RepoUpdate(card, updates) ==
  [card EXCEPT
     !.Difficulty = IF updates.Difficulty # NULL THEN updates.Difficulty[1] ELSE @,
     !.Interval = IF updates.Interval # NULL THEN updates.Interval[1] ELSE @,
     !.EaseFactor = IF updates.EaseFactor # NULL THEN updates.EaseFactor[1] ELSE @,
     !.ReviewCount = IF updates.ReviewCount # NULL THEN updates.ReviewCount[1] ELSE @,
     !.LastReview = IF updates.LastReview # NULL THEN updates.LastReview ELSE @,
     !.NextReview = IF updates.NextReview # NULL THEN updates.NextReview ELSE @]

\* --------------------------------------------------------------- SM-2 math
MathMax(a, b) == IF a >= b THEN a ELSE b

MathRound(num, den) ==
  IF num >= 0 THEN (2 * num + den) \div (2 * den)
  ELSE -((2 * (-num) + den) \div (2 * den))

ValidQualityUpperOnly(quality) == ~(quality > 5)

ValidQuality(quality) == ~(quality < 0 \/ quality > 5)

EaseDelta(q) == 10 - (5 - q) * (8 + (5 - q) * 2)

NewEaseFactorUnclamped(card, q) == card.EaseFactor + EaseDelta(q)

NewEaseFactorOnSuccessOnly(card, q) ==
  IF q < 3 THEN card.EaseFactor ELSE MathMax(130, card.EaseFactor + EaseDelta(q))

NewEaseFactor(card, q) == MathMax(130, card.EaseFactor + EaseDelta(q))

NewRepetitionsAlwaysIncremented(card, q) == card.ReviewCount + 1

NewRepetitionsKeptOnFailure(card, q) ==
  IF q < 3 THEN card.ReviewCount ELSE card.ReviewCount + 1

NewRepetitions(card, q) == IF q < 3 THEN 0 ELSE card.ReviewCount + 1

SuccessIntervalSixFirst(card, newRepetitions, newEaseFactor) ==
  CASE newRepetitions = 1 -> 6
    [] newRepetitions = 2 -> 6
    [] OTHER -> MathRound(card.Interval * newEaseFactor, 100)

SuccessIntervalOldEase(card, newRepetitions, newEaseFactor) ==
  CASE newRepetitions = 1 -> 1
    [] newRepetitions = 2 -> 6
    [] OTHER -> MathRound(card.Interval * card.EaseFactor, 100)

SuccessInterval(card, newRepetitions, newEaseFactor) ==
  CASE newRepetitions = 1 -> 1
    [] newRepetitions = 2 -> 6
    [] OTHER -> MathRound(card.Interval * newEaseFactor, 100)

NewInterval(card, q) ==
  IF q < 3 THEN 1
  ELSE SuccessInterval(card, NewRepetitions(card, q), NewEaseFactor(card, q))

NextReviewAt(now, interval) == now + TicksPerDay * interval

ReviewRequest(card, q, now1, now2) ==
  UpdateFlashcardRequest(
    Some(NewEaseFactor(card, q)),
    Some(NewInterval(card, q)),
    Some(NewEaseFactor(card, q)),
    Some(NewRepetitions(card, q)),
    Some(now2),
    Some(NextReviewAt(now1, NewInterval(card, q))))

\* ---------------------------------------------------------------- service
Call(op, id, user, quality, err, pre, gets, updates, now1, now2) ==
  [op |-> op, id |-> id, user |-> user, quality |-> quality, err |-> err,
   pre |-> pre, gets |-> gets, updates |-> updates, creates |-> 0, deletes |-> 0,
   now1 |-> now1, now2 |-> now2, list |-> <<>>, result |-> <<>>]

\* uuid.New(): an id no stored card has.  Ids are opaque, so one unused id
\* stands for all of them.
FreeIDs(ids) == {id \in ids : store[id] = NoCard}

NewUUID(ids) == CHOOSE id \in FreeIDs(ids) : TRUE

\* FlashcardService.Create: validation, the new card's defaults, repository
\* insert.  ids is the pool uuid.New() draws the new card's id from.
Create(userID, deckID, ids) ==
  /\ \/ /\ deckID = NilUUID
        /\ last' = Call("Create", "none", userID, 0, "DeckIDRequired", NoCard, 0, 0, clock, clock)
        /\ UNCHANGED <<store, created, authVars, uiVars>>
     \/ /\ deckID # NilUUID
        /\ userID = NilUUID
        /\ last' = Call("Create", "none", userID, 0, "UserIDRequired", NoCard, 0, 0, clock, clock)
        /\ UNCHANGED <<store, created, authVars, uiVars>>
     \/ /\ deckID # NilUUID
        /\ userID # NilUUID
        /\ FreeIDs(ids) # {}
        /\ LET id == NewUUID(ids) IN
             /\ store' = [store EXCEPT ![id] = Flashcard(userID, deckID)]
             /\ created' = <<id>> \o created
             /\ last' = [Call("Create", id, userID, 0, "none", NoCard, 0, 0, clock, clock)
                          EXCEPT !.creates = 1]
  /\ UNCHANGED <<clock, reviews, streak, proc, authVars, uiVars>>

\* The body of FlashcardService.ReviewFlashcard.  op, user and gets describe the
\* caller: gets is the number of GetByID calls the caller made before this one.
\* d is the time the clock advances between the time.Now() that dates the next
\* review and the time.Now() that dates LastReview.  budget caps the accepted
\* reviews of a behaviour.
ReviewFlashcardCall(op, id, user, quality, gets, budget) ==
  LET card == GetByID(id) IN
  \/ /\ ~ValidQuality(quality)
     /\ last' = Call(op, id, user, quality, "InvalidQuality", store[id], gets, 0, clock, clock)
     /\ UNCHANGED <<store, created, clock, reviews, streak, proc, authVars, uiVars>>
  \/ /\ ValidQuality(quality)
     /\ card = NoCard
     /\ last' = Call(op, id, user, quality, "NotFound", store[id], gets + 1, 0, clock, clock)
     /\ UNCHANGED <<store, created, clock, reviews, streak, proc, authVars, uiVars>>
  \/ /\ ValidQuality(quality)
     /\ card # NoCard
     /\ last' = Call(op, id, user, quality, "UpdateFailed", store[id], gets + 1, 1, clock, clock)
     /\ UNCHANGED <<store, created, clock, reviews, streak, proc, authVars, uiVars>>
  \/ /\ ValidQuality(quality)
     /\ card # NoCard
     /\ reviews < budget
     /\ \E d \in 0..MaxDelay :
          /\ clock + d <= MaxClock
          /\ store' = [store EXCEPT
                         ![id] = RepoUpdate(GetByID(id), ReviewRequest(card, quality, clock, clock + d))]
          /\ clock' = clock + d
          /\ last' = Call(op, id, user, quality, "none", store[id], gets + 1, 1, clock, clock + d)
     /\ reviews' = reviews + 1
     /\ streak' = [streak EXCEPT ![id] = IF quality >= 3 THEN @ + 1 ELSE 0]
     /\ UNCHANGED <<created, proc, authVars, uiVars>>

ReviewFlashcard(id, quality, budget) ==
  ReviewFlashcardCall("ReviewFlashcard", id, NilUUID, quality, 0, budget)

ReviewFlashcardWithOwnership(id, userID, quality, budget) ==
  LET card == GetByID(id) IN
  \/ /\ card = NoCard
     /\ last' = Call("ReviewFlashcardWithOwnership", id, userID, quality, "NotFound",
                     store[id], 1, 0, clock, clock)
     /\ UNCHANGED <<store, created, clock, reviews, streak, proc, authVars, uiVars>>
  \/ /\ card # NoCard
     /\ card.UserID # userID
     /\ last' = Call("ReviewFlashcardWithOwnership", id, userID, quality, "Unauthorized",
                     store[id], 1, 0, clock, clock)
     /\ UNCHANGED <<store, created, clock, reviews, streak, proc, authVars, uiVars>>
  \/ /\ card # NoCard
     /\ card.UserID = userID
     /\ ReviewFlashcardCall("ReviewFlashcardWithOwnership", id, userID, quality, 1, budget)

\* The bodies PUT /flashcards/:id binds into UpdateFlashcardRequest
\* (difficulty and interval of models/flashcard.go:32-37; front and back are
\* text) and the request the repository receives for one of them.
UpdateBodies ==
  {UpdateFlashcardRequest(difficulty, interval, NULL, NULL, NULL, NULL) :
     difficulty \in {NULL, Some(280)}, interval \in {NULL, Some(0), Some(3)}}

\* FlashcardService.Update lines 104-113: a difficulty in the request is
\* replaced by max(1.3, EF + (0.1 - (5 - q) * (EF + q))) with q = 3.0.
UpdateDifficulty(existingCard, req) ==
  IF req.Difficulty # NULL
  THEN [req EXCEPT !.Difficulty =
          Some(MathMax(130, existingCard.EaseFactor
                             + (10 - (5 - 3) * (existingCard.EaseFactor + 300))))]
  ELSE req

\* The body of FlashcardService.Update; gets is the number of GetByID calls the
\* caller made before this one.
UpdateCall(op, id, user, req, gets) ==
  LET existingCard == GetByID(id) IN
  /\ \/ /\ existingCard = NoCard
        /\ last' = Call(op, id, user, 0, "NotFound", store[id], gets + 1, 0, clock, clock)
        /\ UNCHANGED store
     \/ /\ existingCard # NoCard
        /\ last' = Call(op, id, user, 0, "UpdateFailed", store[id], gets + 1, 1, clock, clock)
        /\ UNCHANGED store
     \/ /\ existingCard # NoCard
        /\ store' = [store EXCEPT
                       ![id] = RepoUpdate(GetByID(id), UpdateDifficulty(existingCard, req))]
        /\ last' = Call(op, id, user, 0, "none", store[id], gets + 1, 1, clock, clock)
  /\ UNCHANGED <<created, clock, reviews, streak, proc, authVars, uiVars>>

Update(id, req) == UpdateCall("Update", id, NilUUID, req, 0)

UpdateWithOwnership(id, userID, req) ==
  LET existingCard == GetByID(id) IN
  \/ /\ existingCard = NoCard
     /\ last' = Call("UpdateWithOwnership", id, userID, 0, "NotFound", store[id], 1, 0, clock, clock)
     /\ UNCHANGED <<store, created, clock, reviews, streak, proc, authVars, uiVars>>
  \/ /\ existingCard # NoCard
     /\ existingCard.UserID # userID
     /\ last' = Call("UpdateWithOwnership", id, userID, 0, "Unauthorized", store[id], 1, 0, clock, clock)
     /\ UNCHANGED <<store, created, clock, reviews, streak, proc, authVars, uiVars>>
  \/ /\ existingCard # NoCard
     /\ existingCard.UserID = userID
     /\ UpdateCall("UpdateWithOwnership", id, userID, req, 1)

\* FlashcardRepository.Delete: DELETE FROM flashcards WHERE id = $1.
RepoDelete(rows, id) == SelectSeq(rows, LAMBDA other : other # id)

\* The body of FlashcardService.Delete; gets is the number of GetByID calls the
\* caller made before this one.
DeleteCall(op, id, user, gets) ==
  /\ \/ /\ GetByID(id) = NoCard
        /\ last' = Call(op, id, user, 0, "NotFound", store[id], gets + 1, 0, clock, clock)
        /\ UNCHANGED <<store, created, streak, authVars, uiVars>>
     \/ /\ GetByID(id) # NoCard
        /\ last' = [Call(op, id, user, 0, "DeleteFailed", store[id], gets + 1, 0, clock, clock)
                     EXCEPT !.deletes = 1]
        /\ UNCHANGED <<store, created, streak, authVars, uiVars>>
     \/ /\ GetByID(id) # NoCard
        /\ store' = [store EXCEPT ![id] = NoCard]
        /\ created' = RepoDelete(created, id)
        /\ streak' = [streak EXCEPT ![id] = 0]
        /\ last' = [Call(op, id, user, 0, "none", store[id], gets + 1, 0, clock, clock)
                     EXCEPT !.deletes = 1]
  /\ UNCHANGED <<clock, reviews, proc, authVars, uiVars>>

Delete(id) == DeleteCall("Delete", id, NilUUID, 0)

DeleteWithOwnershipAnyUser(id, userID) ==
  LET existingCard == GetByID(id) IN
  \/ /\ existingCard = NoCard
     /\ last' = Call("DeleteWithOwnership", id, userID, 0, "NotFound", store[id], 1, 0, clock, clock)
     /\ UNCHANGED <<store, created, clock, reviews, streak, proc, authVars, uiVars>>
  \/ /\ existingCard # NoCard
     /\ DeleteCall("DeleteWithOwnership", id, userID, 1)

DeleteWithOwnership(id, userID) ==
  LET existingCard == GetByID(id) IN
  \/ /\ existingCard = NoCard
     /\ last' = Call("DeleteWithOwnership", id, userID, 0, "NotFound", store[id], 1, 0, clock, clock)
     /\ UNCHANGED <<store, created, clock, reviews, streak, proc, authVars, uiVars>>
  \/ /\ existingCard # NoCard
     /\ existingCard.UserID # userID
     /\ last' = Call("DeleteWithOwnership", id, userID, 0, "Unauthorized", store[id], 1, 0, clock, clock)
     /\ UNCHANGED <<store, created, clock, reviews, streak, proc, authVars, uiVars>>
  \/ /\ existingCard # NoCard
     /\ existingCard.UserID = userID
     /\ DeleteCall("DeleteWithOwnership", id, userID, 1)

\* ---------------------------------------------------------------- handler
\* binding:"required,min=0,max=5" on ReviewFlashcardRequest.Quality: the
\* validator's required rejects the zero value of an int.
BindReviewRequest(quality) == quality # 0 /\ quality >= 0 /\ quality <= 5

\* FlashcardHandler.ReviewFlashcard, POST /flashcards/:id/review, issued by an
\* authenticated requester.
HandlerReviewFlashcard(requester, id, quality, budget) ==
  \/ /\ ~BindReviewRequest(quality)
     /\ last' = Call("HandlerReviewFlashcard", id, requester, quality, "BadRequest",
                     store[id], 0, 0, clock, clock)
     /\ UNCHANGED <<store, created, clock, reviews, streak, proc, authVars, uiVars>>
  \/ /\ BindReviewRequest(quality)
     /\ ReviewFlashcardCall("HandlerReviewFlashcard", id, requester, quality, 0, budget)

\* ------------------------------------------------------------ due selection
IsDueSkippingNil(card, now) == card.NextReview # NULL /\ card.NextReview[1] < now

IsDue(card, now) == card.NextReview = NULL \/ card.NextReview[1] < now

RECURSIVE DueLoop(_, _)
DueLoop(flashcards, now) ==
  IF flashcards = <<>> THEN <<>>
  ELSE IF IsDue(store[Head(flashcards)], now)
       THEN <<Head(flashcards)>> \o DueLoop(Tail(flashcards), now)
       ELSE DueLoop(Tail(flashcards), now)

GetDueCards(userID) ==
  /\ last' = [Call("GetDueCards", "none", userID, 0, "none", NoCard, 0, 0, clock, clock)
                EXCEPT !.list = GetByUser(userID),
                       !.result = DueLoop(GetByUser(userID), clock)]
  /\ UNCHANGED <<store, created, clock, reviews, streak, proc, authVars, uiVars>>

\* ------------------------------------------------------- authentication
\* The Authorization header of a request: absent, a Bearer token that
\* ValidateAccessToken rejects, or an access token issued to a user.
AuthHeaders ==
  {[present |-> FALSE, valid |-> FALSE, user |-> NilUUID],
   [present |-> TRUE, valid |-> FALSE, user |-> NilUUID]}
  \cup {[present |-> TRUE, valid |-> TRUE, user |-> u] : u \in Users}

\* middleware.JWTAuth: aborts with 401 without a valid Bearer token, otherwise
\* stores claims.UserID, a Go string, under "user_id" in the gin context.
\* A context value carries its dynamic type.
JWTAuth(authHeader) ==
  IF ~authHeader.present \/ ~authHeader.valid
  THEN [aborted |-> TRUE, exists |-> FALSE, user_id |-> [type |-> "none", value |-> NilUUID]]
  ELSE [aborted |-> FALSE, exists |-> TRUE,
        user_id |-> [type |-> "string", value |-> authHeader.user]]

\* userIDInterface.(uuid.UUID): the type assertion of the flashcard handlers.
IsUUID(userIDInterface) == userIDInterface.type = "uuid.UUID"

\* FlashcardHandler.GetDueFlashcards behind JWTAuth, GET /flashcards/due.
HandlerGetDueFlashcards(authHeader) ==
  LET c == JWTAuth(authHeader)
      op == "HandlerGetDueFlashcards"
  IN
  /\ last' =
       IF c.aborted \/ ~c.exists
       THEN Call(op, "none", NilUUID, 0, "Unauthenticated", NoCard, 0, 0, clock, clock)
       ELSE IF ~IsUUID(c.user_id)
       THEN Call(op, "none", c.user_id.value, 0, "InvalidUserIDType", NoCard, 0, 0, clock, clock)
       ELSE [Call(op, "none", c.user_id.value, 0, "none", NoCard, 0, 0, clock, clock)
               EXCEPT !.list = GetByUser(c.user_id.value),
                      !.result = DueLoop(GetByUser(c.user_id.value), clock)]
  /\ UNCHANGED <<store, created, clock, reviews, streak, proc, authVars, uiVars>>

\* --------------------------------------------------------- refresh tokens
\* JWT_REFRESH_TTL in ticks (the environment sets it; 7 days by default).
RefreshTokenTTL == 2

\* LIMIT 10 of GetValidRefreshToken's query.
QueryLimit == 10

\* RefreshTokenRepository.StoreRefreshToken: one more row.
StoreRefreshToken(rows, userID, expiresAt) ==
  Append(rows, [user |-> userID, expires |-> expiresAt, revoked |-> FALSE])

\* WHERE user_id = $1 AND revoked_at IS NULL AND expires_at > NOW().
UnrevokedUnexpired(rows, userID, now) ==
  {i \in 1..Len(rows) :
     rows[i].user = userID /\ ~rows[i].revoked /\ rows[i].expires > now}

\* ORDER BY created_at DESC LIMIT n: the n rows stored last.
NewestRows(found, n) == {i \in found : Cardinality({j \in found : j > i}) < n}

\* RefreshTokenRepository.GetValidRefreshToken: TRUE when the loop over the
\* query's rows finds one whose hash is the hash of tokenString.
GetValidRefreshToken(rows, userID, tokenString, now) ==
  tokenString \in NewestRows(UnrevokedUnexpired(rows, userID, now), QueryLimit)

\* RefreshTokenRepository.RevokeUserTokens.
RevokeUserTokens(rows, userID) ==
  [i \in 1..Len(rows) |->
     IF rows[i].user = userID /\ ~rows[i].revoked
     THEN [rows[i] EXCEPT !.revoked = TRUE]
     ELSE rows[i]]

\* JWTService.ValidateRefreshToken: a token this service signed whose exp
\* claim has not passed.
ValidateRefreshToken(rows, tokenString, now) ==
  tokenString \in 1..Len(rows) /\ ~(now > rows[tokenString].expires)

\* AuthService.Login; passwordOK is the outcome of the email and password
\* checks.  budget caps the rows of a behaviour.
Login(userID, passwordOK, budget) ==
  /\ IF ~passwordOK
     THEN /\ rlast' = [op |-> "Login", user |-> userID, token |-> 0, err |-> "InvalidCredentials"]
          /\ UNCHANGED tokens
     ELSE /\ Len(tokens) < budget
          /\ tokens' = StoreRefreshToken(tokens, userID, clock + RefreshTokenTTL)
          /\ rlast' = [op |-> "Login", user |-> userID, token |-> Len(tokens) + 1, err |-> "none"]
  /\ UNCHANGED <<uiVars, cardVars, rproc>>

\* AuthService.Logout.
Logout(userID) ==
  /\ \/ /\ tokens' = RevokeUserTokens(tokens, userID)
        /\ rlast' = [op |-> "Logout", user |-> userID, token |-> 0, err |-> "none"]
     \/ /\ rlast' = [op |-> "Logout", user |-> userID, token |-> 0, err |-> "LogoutFailed"]
        /\ UNCHANGED tokens
  /\ UNCHANGED <<uiVars, cardVars, rproc>>

\* A call of GetValidRefreshToken by the owner of a stored token.
LookupRefreshToken(tokenString) ==
  /\ tokenString \in 1..Len(tokens)
  /\ rlast' = [op |-> "GetValidRefreshToken", user |-> tokens[tokenString].user,
               token |-> tokenString,
               err |-> IF GetValidRefreshToken(tokens, tokens[tokenString].user, tokenString, clock)
                       THEN "none" ELSE "NotFound"]
  /\ UNCHANGED <<uiVars, cardVars, tokens, rproc>>

\* AuthService.RefreshToken up to and including GetValidRefreshToken.
RefreshStart(p, tokenString) ==
  /\ rproc[p].pc = "idle"
  /\ \/ /\ ~ValidateRefreshToken(tokens, tokenString, clock)
        /\ rproc' = [rproc EXCEPT ![p] = [pc |-> "done", user |-> NilUUID, token |-> tokenString,
                                          err |-> "InvalidRefreshToken", issued |-> 0]]
     \/ /\ ValidateRefreshToken(tokens, tokenString, clock)
        /\ ~GetValidRefreshToken(tokens, tokens[tokenString].user, tokenString, clock)
        /\ rproc' = [rproc EXCEPT ![p] = [pc |-> "done", user |-> tokens[tokenString].user,
                                          token |-> tokenString,
                                          err |-> "InvalidRefreshToken", issued |-> 0]]
     \/ /\ ValidateRefreshToken(tokens, tokenString, clock)
        /\ GetValidRefreshToken(tokens, tokens[tokenString].user, tokenString, clock)
        /\ rproc' = [rproc EXCEPT ![p] = [pc |-> "verified", user |-> tokens[tokenString].user,
                                          token |-> tokenString, err |-> "none", issued |-> 0]]
  /\ UNCHANGED <<uiVars, cardVars, tokens, rlast>>

\* AuthService.RefreshToken, the revocation: an error of RevokeUserTokens is
\* logged and the call goes on.
RefreshRevoke(p) ==
  /\ rproc[p].pc = "verified"
  /\ \/ tokens' = RevokeUserTokens(tokens, rproc[p].user)
     \/ UNCHANGED tokens
  /\ rproc' = [rproc EXCEPT ![p].pc = "revoked"]
  /\ UNCHANGED <<uiVars, cardVars, rlast>>

\* AuthService.RefreshToken from GenerateTokenPair to the response.
RefreshStore(p, budget) ==
  /\ rproc[p].pc = "revoked"
  /\ \/ /\ rproc' = [rproc EXCEPT ![p].pc = "done", ![p].err = "StoreFailed"]
        /\ UNCHANGED tokens
     \/ /\ Len(tokens) < budget
        /\ tokens' = StoreRefreshToken(tokens, rproc[p].user, clock + RefreshTokenTTL)
        /\ rproc' = [rproc EXCEPT ![p].pc = "done", ![p].issued = Len(tokens) + 1]
  /\ UNCHANGED <<uiVars, cardVars, rlast>>

\* ------------------------------------------------------------ web client
\* HTTP statuses a request is answered with: success, unauthorized, another
\* error.  AuthHandler.RefreshToken answers 401 when AuthService.RefreshToken
\* fails.
Statuses == {200, 401, 500}

Frame(req) == [req |-> req, retry |-> FALSE, stage |-> "sent"]

Top(stack) == stack[Len(stack)]

Pop(stack) == SubSeq(stack, 1, Len(stack) - 1)

\* authClient.signIn.email succeeded: setAuth stores the session.
ClientSignIn ==
  /\ client.stack = <<>>
  /\ ~client.session
  /\ client' = [client EXCEPT !.session = TRUE, !.signedOut = FALSE]
  /\ UNCHANGED <<cardVars, authVars, study>>

\* The page sends a request through the axios instance api.
ClientRequest(budget) ==
  /\ client.stack = <<>>
  /\ client.requests < budget
  /\ client' = [client EXCEPT !.stack = <<Frame("original")>>, !.outcome = "pending",
                              !.requests = @ + 1, !.refreshPosts = 0, !.retries = 0]
  /\ UNCHANGED <<cardVars, authVars, study>>

\* The promise of the newest request rejects.  A rejected refresh POST makes
\* authClient.refreshToken clear the session and throw, the interceptor that
\* awaited it signs out and rejects its own request, and so on down to the
\* original request.
Rejected(signOut) ==
  [client EXCEPT !.stack = <<>>, !.outcome = "rejected",
                 !.session = IF signOut THEN FALSE ELSE @,
                 !.signedOut = IF signOut THEN TRUE ELSE @]

\* The response interceptor of api on the response to the newest request.
\* budget caps the refresh POSTs of one original request.
ClientResponse(status, budget) ==
  /\ client.stack # <<>>
  /\ Top(client.stack).stage = "sent"
  /\ LET top == Top(client.stack)
         rest == Pop(client.stack)
     IN
     \/ /\ status = 200
        /\ top.req = "original"
        /\ client' = [client EXCEPT !.stack = <<>>, !.outcome = "resolved"]
     \/ /\ status = 200
        /\ top.req = "refresh"
        /\ client' = [client EXCEPT
                        !.stack = [rest EXCEPT ![Len(rest)].stage = "sent"],
                        !.session = TRUE,
                        !.retries = IF Len(rest) = 1 THEN @ + 1 ELSE @]
     \/ /\ status = 401
        /\ ~top.retry
        /\ client.session
        /\ client.refreshPosts < budget
        /\ client' = [client EXCEPT
                        !.stack = Append([client.stack EXCEPT ![Len(client.stack)] =
                                            [top EXCEPT !.retry = TRUE, !.stage = "refreshing"]],
                                         Frame("refresh")),
                        !.refreshPosts = @ + 1]
     \/ /\ status = 401
        /\ ~top.retry
        /\ ~client.session
        /\ client' = Rejected(TRUE)
     \/ /\ status # 200
        /\ status = 401 => top.retry
        /\ client' = Rejected(top.req = "refresh")
  /\ UNCHANGED <<cardVars, authVars, study>>

\* ------------------------------------------------------------ study page
\* The qualities of the four rating buttons of StudyPage.
ButtonQualities == {0, 2, 3, 5}

\* dueCards[currentCardIndex], or none.
CurrentCard(dueCards, currentCardIndex) ==
  IF currentCardIndex + 1 <= Len(dueCards) THEN {dueCards[currentCardIndex + 1]} ELSE {}

\* isSessionComplete, shown inside the dueCards.length > 0 branch.
IsSessionComplete ==
  /\ study.open
  /\ Len(study.dueCards) > 0
  /\ study.currentCardIndex >= Len(study.dueCards)

\* StudyPage mounts: useDueFlashcards fetches the due list, the index is 0.
\* initial and presented record the cards due at the start and the cards that
\* were the current card of an up-to-date list or were reviewed.
StudyOpen(userID) ==
  /\ ~study.open
  /\ LET dueCards == DueLoop(GetByUser(userID), clock) IN
       study' = [open |-> TRUE, user |-> userID, dueCards |-> dueCards,
                 currentCardIndex |-> 0, stale |-> FALSE,
                 initial |-> {dueCards[i] : i \in 1..Len(dueCards)},
                 presented |-> CurrentCard(dueCards, 0)]
  /\ UNCHANGED <<cardVars, authVars, client>>

\* StudyPage.handleReview(quality) with the round trip of useReviewFlashcard:
\* POST /flashcards/:id/review, on success the invalidation of the due query
\* and the increment of currentCardIndex.  budget caps the accepted reviews.
StudyHandleReview(quality, budget) ==
  /\ study.open
  /\ CurrentCard(study.dueCards, study.currentCardIndex) # {}
  /\ LET id == study.dueCards[study.currentCardIndex + 1]
         card == GetByID(id)
         op == "HandlerReviewFlashcard"
     IN
     \/ /\ ~BindReviewRequest(quality)
        /\ last' = Call(op, id, study.user, quality, "BadRequest", store[id], 0, 0, clock, clock)
        /\ UNCHANGED <<store, clock, reviews, streak, study>>
     \/ /\ BindReviewRequest(quality)
        /\ ValidQuality(quality)
        /\ card # NoCard
        /\ last' = Call(op, id, study.user, quality, "UpdateFailed", store[id], 1, 1, clock, clock)
        /\ UNCHANGED <<store, clock, reviews, streak, study>>
     \/ /\ BindReviewRequest(quality)
        /\ ValidQuality(quality)
        /\ card # NoCard
        /\ reviews < budget
        /\ \E d \in 0..MaxDelay :
             /\ clock + d <= MaxClock
             /\ store' = [store EXCEPT
                            ![id] = RepoUpdate(GetByID(id), ReviewRequest(card, quality, clock, clock + d))]
             /\ clock' = clock + d
             /\ last' = Call(op, id, study.user, quality, "none", store[id], 1, 1, clock, clock + d)
        /\ reviews' = reviews + 1
        /\ streak' = [streak EXCEPT ![id] = IF quality >= 3 THEN @ + 1 ELSE 0]
        /\ study' = [study EXCEPT !.stale = TRUE,
                                  !.currentCardIndex = @ + 1,
                                  !.presented = @ \cup {id}]
  /\ UNCHANGED <<created, proc, authVars, client>>

\* The refetch of the invalidated due query arrives.
StudyRefetch ==
  /\ study.open
  /\ study.stale
  /\ LET dueCards == DueLoop(GetByUser(study.user), clock) IN
       study' = [study EXCEPT
                   !.dueCards = dueCards,
                   !.stale = FALSE,
                   !.presented = @ \cup CurrentCard(dueCards, study.currentCardIndex)]
  /\ UNCHANGED <<cardVars, authVars, client>>

\* ------------------------------------------------------------------ clock
Tick ==
  /\ clock < MaxClock
  /\ clock' = clock + 1
  /\ UNCHANGED <<store, created, reviews, last, streak, proc, authVars, uiVars>>

\* ---------------------------------------------------------- specifications
\* Spec: the review scheduling of one card, to the depth of MaxReviews reviews.
Next ==
  \/ \E u \in Users \cup {NilUUID}, k \in Decks \cup {NilUUID} : Create(u, k, {"c1"})
  \/ \E q \in Qualities : ReviewFlashcard("c1", q, MaxReviews)
  \/ Tick

Spec == Init /\ [][Next]_vars

\* SpecDue: due selection over the cards of two users.
DueQualities == {-1, 1, 4}

NextDue ==
  \/ \E u \in Users, k \in Decks : Create(u, k, CardIDs)
  \/ \E id \in CardIDs, q \in DueQualities : ReviewFlashcard(id, q, MaxDueReviews)
  \/ \E u \in Users : GetDueCards(u)
  \/ Tick

SpecDue == Init /\ [][NextDue]_vars

\* SpecAuth: the two review entry points that take a requester.
NextAuth ==
  \/ \E u \in Users, k \in Decks : Create(u, k, {"c1"})
  \/ \E id \in CardIDs, u \in Users, q \in Qualities :
       ReviewFlashcardWithOwnership(id, u, q, MaxAuthReviews)
  \/ \E u \in Users, id \in CardIDs, q \in Qualities :
       HandlerReviewFlashcard(u, id, q, MaxAuthReviews)
  \/ Tick

SpecAuth == Init /\ [][NextAuth]_vars

\* SpecConc: two request goroutines run FlashcardService.ReviewFlashcard on
\* the store at the same time.  The service holds no lock and opens no
\* transaction, so the steps of one call interleave with the steps of the
\* other between its GetByID and its Update.

\* ReviewFlashcard up to and including its GetByID.
ConcStart(p, id, quality) ==
  /\ proc[p].pc = "idle"
  /\ \/ /\ ~ValidQuality(quality)
        /\ proc' = [proc EXCEPT ![p] = [pc |-> "done", id |-> id, quality |-> quality,
                                        card |-> NoCard, err |-> "InvalidQuality"]]
     \/ /\ ValidQuality(quality)
        /\ GetByID(id) = NoCard
        /\ proc' = [proc EXCEPT ![p] = [pc |-> "done", id |-> id, quality |-> quality,
                                        card |-> NoCard, err |-> "NotFound"]]
     \/ /\ ValidQuality(quality)
        /\ GetByID(id) # NoCard
        /\ proc' = [proc EXCEPT ![p] = [pc |-> "fetched", id |-> id, quality |-> quality,
                                        card |-> GetByID(id), err |-> "none"]]
  /\ UNCHANGED <<store, created, clock, reviews, last, streak, authVars, uiVars>>

\* ReviewFlashcard from the SM-2 computation on the fetched card to the
\* repository Update.
ConcUpdate(p) ==
  /\ proc[p].pc = "fetched"
  /\ \/ /\ proc' = [proc EXCEPT ![p].pc = "done", ![p].err = "UpdateFailed"]
        /\ UNCHANGED <<store, created, clock, reviews, last, streak, authVars, uiVars>>
     \/ /\ \E d \in 0..MaxDelay :
             /\ clock + d <= MaxClock
             /\ store' = [store EXCEPT
                            ![proc[p].id] = RepoUpdate(GetByID(proc[p].id),
                                              ReviewRequest(proc[p].card, proc[p].quality, clock, clock + d))]
             /\ clock' = clock + d
        /\ proc' = [proc EXCEPT ![p].pc = "done"]
        /\ reviews' = reviews + 1
        /\ streak' = [streak EXCEPT ![proc[p].id] = IF proc[p].quality >= 3 THEN @ + 1 ELSE 0]
        /\ UNCHANGED <<created, last, authVars, uiVars>>

NextConc ==
  \/ \E u \in Users, k \in Decks : Create(u, k, {"c1"})
  \/ \E p \in Procs, q \in Qualities : ConcStart(p, "c1", q)
  \/ \E p \in Procs : ConcUpdate(p)
  \/ Tick

SpecConc == Init /\ [][NextConc]_vars

\* SpecUpdate: PUT /flashcards/:id beside create and review.
NextUpdate ==
  \/ \E u \in Users, k \in Decks : Create(u, k, {"c1"})
  \/ \E q \in Qualities : ReviewFlashcard("c1", q, MaxUpdateReviews)
  \/ \E req \in UpdateBodies : Update("c1", req)
  \/ \E u \in Users, req \in UpdateBodies : UpdateWithOwnership("c1", u, req)
  \/ Tick

SpecUpdate == Init /\ [][NextUpdate]_vars

\* SpecOwner: the owner-checked PUT and DELETE of a card, by its owner and by
\* another user.
NextOwner ==
  \/ \E u \in Users, k \in Decks : Create(u, k, CardIDs)
  \/ \E id \in CardIDs, u \in Users, req \in UpdateBodies : UpdateWithOwnership(id, u, req)
  \/ \E id \in CardIDs, u \in Users : DeleteWithOwnership(id, u)
  \/ \E id \in CardIDs : Delete(id)

SpecOwner == Init /\ [][NextOwner]_vars

\* SpecJWT: the due-cards endpoint behind the JWT middleware.
NextJWT ==
  \/ \E u \in Users, k \in Decks : Create(u, k, {"c1"})
  \/ \E q \in DueQualities : ReviewFlashcard("c1", q, MaxAuthReviews)
  \/ \E authHeader \in AuthHeaders : HandlerGetDueFlashcards(authHeader)
  \/ Tick

SpecJWT == Init /\ [][NextJWT]_vars

\* SpecRefresh: logins of one user and two requests that exchange refresh
\* tokens, together or one after the other.
NextRefresh ==
  \/ Login("u1", TRUE, MaxRefreshTokens)
  \/ \E p \in RefreshProcs, tokenString \in 0..MaxRefreshTokens : RefreshStart(p, tokenString)
  \/ \E p \in RefreshProcs : RefreshRevoke(p)
  \/ \E p \in RefreshProcs : RefreshStore(p, MaxRefreshTokens)
  \/ Tick

SpecRefresh == Init /\ [][NextRefresh]_vars

\* SpecLogin: logins and logouts of one user and lookups of the tokens the
\* logins stored.
NextLogin ==
  \/ \E passwordOK \in BOOLEAN : Login("u1", passwordOK, MaxLogins)
  \/ Logout("u1")
  \/ \E tokenString \in 1..MaxLogins : LookupRefreshToken(tokenString)

SpecLogin == Init /\ [][NextLogin]_vars

\* SpecClient: requests of the signed-in or signed-out client and the
\* server's answers to them and to the refresh requests they start.
NextClient ==
  \/ ClientSignIn
  \/ ClientRequest(MaxRequests)
  \/ \E status \in Statuses : ClientResponse(status, MaxRefreshPosts)

SpecClient == Init /\ [][NextClient]_vars

\* SpecStudy: a study session over the cards of one user.
NextStudy ==
  \/ \E k \in Decks : Create("u1", k, CardIDs)
  \/ StudyOpen("u1")
  \/ \E q \in ButtonQualities : StudyHandleReview(q, MaxStudyReviews)
  \/ StudyRefetch
  \/ Tick

SpecStudy == Init /\ [][NextStudy]_vars

\* SpecSchedule: the due list of one user between the reviews and PUTs of a
\* card.
ScheduleQualities == {-1, 4}

NextSchedule ==
  \/ \E k \in Decks : Create("u1", k, {"c1"})
  \/ \E q \in ScheduleQualities : ReviewFlashcard("c1", q, MaxScheduleReviews)
  \/ \E req \in {body \in UpdateBodies : body.Difficulty = NULL} : Update("c1", req)
  \/ GetDueCards("u1")
  \/ Tick

SpecSchedule == Init /\ [][NextSchedule]_vars

\* ------------------------------------------------------------- properties
ReviewOps == {"ReviewFlashcard", "ReviewFlashcardWithOwnership", "HandlerReviewFlashcard"}

\* The last call was a review that the service accepted and wrote.
Reviewed == last.op \in ReviewOps /\ last.err = "none"

\* The card the last call was about, as stored now.
Post == store[last.id]

\* C1: ReviewFlashcard with a quality below 0 or above 5 returns the quality
\* error without calling GetByID or Update, and the stored card is the one
\* that was there before the call.
C1_InvalidQualityNoMutation ==
  (last.op = "ReviewFlashcard" /\ (last.quality < 0 \/ last.quality > 5)) =>
    /\ last.err = "InvalidQuality"
    /\ last.gets = 0
    /\ last.updates = 0
    /\ store[last.id] = last.pre

C1_Witness ==
  /\ last.op = "ReviewFlashcard"
  /\ last.quality = -1
  /\ last.err = "InvalidQuality"
  /\ last.pre # NoCard
  /\ last.pre.ReviewCount > 0

\* C2: whatever reviews a card created with ease factor 2.5 has received, its
\* stored ease factor is at least 1.3.
C2_EaseFactorFloor ==
  \A id \in CardIDs : store[id] # NoCard => store[id].EaseFactor >= 130

C2_Witness ==
  /\ Reviewed
  /\ last.pre.EaseFactor + EaseDelta(last.quality) < 130
  /\ Post.EaseFactor = 130

\* C3: on the failure and on the success branch alike, the ease factor an
\* accepted review writes is max(1.3, EF + delta(q)) with EF the ease factor
\* fetched before the review and delta = -0.80, -0.54, -0.32, -0.14, 0, +0.10
\* for q = 0..5.
SM2Delta == <<-80, -54, -32, -14, 0, 10>>

Nearest(i, hundredths) == 100 * i - 50 <= hundredths /\ hundredths < 100 * i + 50

C6_IntervalFromNewEase ==
  (Reviewed /\ last.quality >= 3 /\ last.pre.ReviewCount >= 2) =>
    Nearest(Post.Interval, last.pre.Interval * Post.EaseFactor)

C6_Witness ==
  /\ Reviewed
  /\ last.quality >= 3
  /\ last.pre.ReviewCount >= 2
  /\ Nearest(Post.Interval, last.pre.Interval * Post.EaseFactor)
  /\ ~Nearest(Post.Interval, last.pre.Interval * last.pre.EaseFactor)

\* C7: after an accepted review the stored next-review time is the stored
\* last-review time plus the stored interval in days.
C7_NextIsLastPlusInterval ==
  Reviewed => Post.NextReview = Some(Post.LastReview[1] + TicksPerDay * Post.Interval)

\* C8: GetDueCards returns every listed card whose next-review time equals the
\* time the selection read as now.
InSeq(x, seq) == \E i \in 1..Len(seq) : seq[i] = x

C8_DueInclusive ==
  last.op = "GetDueCards" =>
    \A i \in 1..Len(last.list) :
      store[last.list[i]].NextReview = Some(last.now1) => InSeq(last.list[i], last.result)

\* C9: what GetDueCards returns is a subsequence of the user's card list, in
\* the list's order, holding every card without a next-review time and no card
\* whose next-review time is after now.
RECURSIVE IsSubsequence(_, _)
IsSubsequence(a, b) ==
  IF a = <<>> THEN TRUE
  ELSE IF b = <<>> THEN FALSE
  ELSE IF Head(a) = Head(b) THEN IsSubsequence(Tail(a), Tail(b))
  ELSE IsSubsequence(a, Tail(b))

C9_DueSubsequence ==
  last.op = "GetDueCards" =>
    /\ IsSubsequence(last.result, last.list)
    /\ \A i \in 1..Len(last.list) :
         store[last.list[i]].NextReview = NULL => InSeq(last.list[i], last.result)
    /\ \A i \in 1..Len(last.result) :
         LET next == store[last.result[i]].NextReview
         IN next = NULL \/ next[1] <= last.now1

C9_Witness ==
  /\ last.op = "GetDueCards"
  /\ Len(last.list) = 2
  /\ store[last.list[1]].NextReview # NULL
  /\ store[last.list[1]].NextReview[1] > last.now1
  /\ store[last.list[2]].NextReview = NULL
  /\ last.result = <<last.list[2]>>

\* C10: a well-formed review request from a requester who does not own the
\* card is answered with the unauthorized error, calls no Update and leaves
\* the card as it was, on the ownership-checked service path and on the
\* POST /flashcards/:id/review handler path.
C10_NonOwnerReviewRejected ==
  (/\ last.op \in {"ReviewFlashcardWithOwnership", "HandlerReviewFlashcard"}
   /\ last.quality \in 1..5
   /\ last.pre # NoCard
   /\ last.pre.UserID # last.user) =>
    /\ last.err = "Unauthorized"
    /\ last.updates = 0
    /\ store[last.id] = last.pre

\* C11: an accepted ownership-checked review fetches the card from the store
\* once: the GetByID whose card the ownership check reads is the only GetByID
\* of the call, so the scheduling computation uses that same card.
C11_SingleFetch ==
  (last.op = "ReviewFlashcardWithOwnership" /\ last.err = "none") => last.gets = 1

\* C12: when two concurrent ReviewFlashcard calls on one new card have both
\* been accepted, the stored ease factor, interval and repetition count are
\* those of applying the two reviews one after the other in one of the two
\* orders.
Sched(card) == <<card.EaseFactor, card.Interval, card.ReviewCount>>

Apply(card, q) == RepoUpdate(card, ReviewRequest(card, q, 0, 0))

BothAccepted == \A p \in Procs : proc[p].pc = "done" /\ proc[p].err = "none"

C12_ReviewsSerialized ==
  BothAccepted =>
    LET base == Flashcard(store["c1"].UserID, store["c1"].DeckID)
        q1 == proc["p1"].quality
        q2 == proc["p2"].quality
    IN Sched(store["c1"]) \in {Sched(Apply(Apply(base, q1), q2)),
                               Sched(Apply(Apply(base, q2), q1))}

\* C13: FlashcardService.Update, directly or through the ownership check of
\* PUT /flashcards/:id, leaves ease factor, interval, repetition count,
\* last-review and next-review times of the card as they were, whatever the
\* request body.
SchedulingFields(card) ==
  <<card.EaseFactor, card.Interval, card.ReviewCount, card.LastReview, card.NextReview>>

C13_UpdateKeepsScheduling ==
  (last.op \in {"Update", "UpdateWithOwnership"} /\ last.pre # NoCard) =>
    SchedulingFields(store[last.id]) = SchedulingFields(last.pre)

C15_IntervalAndCountBounds ==
  \A id \in CardIDs :
    store[id] # NoCard => (store[id].Interval >= 1 /\ store[id].ReviewCount >= 0)

C17_ReviewDeterministic ==
  Reviewed =>
    \A d \in 0..MaxDelay :
      SchedulingFields(Post) =
        SchedulingFields(RepoUpdate(last.pre,
          ReviewRequest(last.pre, last.quality, last.now1, last.now1 + d)))

\* C18: a review is applied whole or not at all. When the repository Update
\* fails the review returns the error and the stored card is the card from
\* before the call; when it succeeds the ease factor, interval, repetition
\* count, last review and next review stored are all the values that this
\* one review computed from the card it fetched.
C18_ReviewAllOrNothing ==
  /\ (last.op \in ReviewOps /\ last.err = "UpdateFailed") =>
       (last.updates = 1 /\ Post = last.pre)
  /\ Reviewed =>
       LET req == ReviewRequest(last.pre, last.quality, last.now1, last.now2) IN
       /\ Post.EaseFactor = req.EaseFactor[1]
       /\ Post.Interval = req.Interval[1]
       /\ Post.ReviewCount = req.ReviewCount[1]
       /\ Post.LastReview = req.LastReview
       /\ Post.NextReview = req.NextReview
       /\ Post.UserID = last.pre.UserID

C18_Witness ==
  /\ Reviewed
  /\ last.pre.NextReview # NULL
  /\ last.pre.ReviewCount = 1
  /\ last.quality = 4
  /\ Post.Interval = 6
  /\ Post.NextReview # last.pre.NextReview

\* C19: a review with a valid quality of an id the store does not contain
\* returns the not-found error after its one GetByID, makes no Update call,
\* and the id is still absent afterwards; the not-found error is returned
\* for absent ids only.
C19_AbsentCardNotFound ==
  /\ (last.op = "ReviewFlashcard" /\ ValidQuality(last.quality) /\ last.pre = NoCard) =>
       /\ last.err = "NotFound"
       /\ last.gets = 1
       /\ last.updates = 0
       /\ Post = NoCard
  /\ (last.op \in ReviewOps /\ last.err = "NotFound") =>
       (last.pre = NoCard /\ last.updates = 0 /\ Post = NoCard)

C19_Witness ==
  /\ last.op = "ReviewFlashcard"
  /\ last.err = "NotFound"
  /\ last.id = "c2"
  /\ store["c2"] = NoCard
  /\ store["c1"] # NoCard
  /\ store["c1"].ReviewCount = 1

\* C20: the review handler's request binding rejects a quality exactly when
\* it lies outside 0..5, the bound ReviewFlashcard checks again: every
\* quality from 0 to 5 passes the binding and reaches the service.
C20_BindingAcceptsZeroToFive ==
  last.op = "HandlerReviewFlashcard" =>
    /\ (last.err = "BadRequest") <=> ~ValidQuality(last.quality)
    /\ last.err # "InvalidQuality"

\* C21: UpdateWithOwnership and DeleteWithOwnership called for a stored card
\* by a user who is not its owner return the unauthorized error after the
\* one GetByID of the check, call neither the repository Update nor Delete,
\* and the card is stored afterwards exactly as before.
C21_NonOwnerUpdateDeleteRejected ==
  (/\ last.op \in {"UpdateWithOwnership", "DeleteWithOwnership"}
   /\ last.pre # NoCard
   /\ last.pre.UserID # last.user) =>
     /\ last.err = "Unauthorized"
     /\ last.gets = 1
     /\ last.updates = 0
     /\ last.deletes = 0
     /\ Post = last.pre
     /\ InSeq(last.id, created)

C21_Witness ==
  /\ last.op = "DeleteWithOwnership"
  /\ last.err = "Unauthorized"
  /\ last.user = "u2"
  /\ Post # NoCard
  /\ Post.UserID = "u1"
  /\ Post.Interval = 3

C21_WitnessUpdate ==
  /\ last.op = "UpdateWithOwnership"
  /\ last.err = "Unauthorized"
  /\ Post # NoCard
  /\ Post.UserID # last.user

\* The card the last call fetched had never been reviewed: the values of a
\* new card.
PreNeverReviewed ==
  /\ last.pre.EaseFactor = 250
  /\ last.pre.Interval = 1
  /\ last.pre.ReviewCount = 0
  /\ last.pre.LastReview = NULL

PreTwiceCorrect ==
  /\ last.pre.EaseFactor = 250
  /\ last.pre.Interval = 6
  /\ last.pre.ReviewCount = 2

C24_TokenUserIDAccepted ==
  (last.op = "HandlerGetDueFlashcards" /\ last.user \in Users) =>
    /\ last.err = "none"
    /\ last.list = GetByUser(last.user)

\* Both requests have exchanged a refresh token for a new pair.
BothRefreshed ==
  \A p \in RefreshProcs : rproc[p].pc = "done" /\ rproc[p].err = "none"

\* C25: a refresh token is exchanged at most once: two RefreshToken calls
\* that both succeeded, one after the other or together, presented
\* different tokens.
C25_RefreshTokenSingleUse ==
  BothRefreshed => rproc["r1"].token # rproc["r2"].token

\* C26: GetValidRefreshToken finds every stored token of the user that is
\* neither revoked nor expired, however many such tokens the user has.
C26_EveryValidTokenFound ==
  (/\ rlast.op = "GetValidRefreshToken"
   /\ ~tokens[rlast.token].revoked
   /\ tokens[rlast.token].expires > clock) => rlast.err = "none"

\* C27: for one request answered 401 the client posts at most one refresh
\* request and re-sends the original request at most once; a refresh that
\* fails, also with a 401 of the refresh endpoint, ends in sign-out without
\* another refresh request.
C27_OneRefreshOneRetry ==
  /\ client.refreshPosts <= 1
  /\ client.retries <= 1

\* C28: when the study page reports 'Session Complete', every card that was
\* in the due list when the session started has been presented for review.
C28_NoDueCardSkipped ==
  IsSessionComplete => study.initial \subseteq study.presented

\* C29: a card whose last accepted review was at time t is not in the result
\* of GetDueCards at any time before t plus one day, and it is in the result
\* at every time after its stored next-review time.
C29_DueWindowAfterReview ==
  last.op = "GetDueCards" =>
    \A id \in CardIDs :
      (/\ store[id] # NoCard
       /\ store[id].UserID = last.user
       /\ store[id].LastReview # NULL) =>
         /\ InSeq(id, last.result) => ~(last.now1 < store[id].LastReview[1] + TicksPerDay)
         /\ last.now1 > store[id].NextReview[1] => InSeq(id, last.result)

====
